---- MODULE Spec2Model ----
(***************************************************************************)
(* A model of pybmdope: the BMDOPE engine (src/pybmdope/bmdope.py), its    *)
(* metadata codec (src/bmdope/metadata.py) and its bit/byte helpers        *)
(* (src/bmdope/util.py).                                                   *)
(*                                                                         *)
(* Representation of the Python values:                                    *)
(*   bytes        a sequence of numbers in 0..255                          *)
(*   str of bits  a sequence of numbers in 0..1 (the strings bin() makes)  *)
(*   int          an unbounded non-negative integer is the sequence of its *)
(*                base-256 digits, most significant first, without leading *)
(*                zero digits (0 is << >>); the only negative integers of  *)
(*                the program arise in decrypt_block, which flags them     *)
(*                                                                         *)
(* Specifications:                                                         *)
(*   Spec       one engine, one plaintext: __init__, encrypt, decrypt and  *)
(*              encrypt_bound in any order                                 *)
(*   SpecOrder  one engine, two plaintexts data < other of equal length    *)
(*   SpecMeta   encrypt_metadata and decrypt_metadata called on their own  *)
(***************************************************************************)
EXTENDS Integers, Sequences, FiniteSets, TLC

\* ------------------------------------------------------------------ bounds

\* Plaintexts are all byte strings over ByteAlphabet of at most MaxLen bytes.
MaxLen == 5

\* Metadata sequences given to the codec directly have at most MaxMeta entries.
MaxMeta == 17

\* Pairs of plaintexts compared for order have at most MaxOrderLen bytes each.
MaxOrderLen == 4

\* The longest plaintext that is cut into blocks on its own.
MaxSplit == 9

\* ------------------------------------------------------- program constants

BLOCK_SIZE == 16

ENGINE_BLOCK_SIZE == 4

SHIFT_MASK == 31

KEY_SIZE == 16

SENTINEL == 255

\* ------------------------------------------------------- sequence helpers

Max(a, b) == IF a >= b THEN a ELSE b

Min(a, b) == IF a <= b THEN a ELSE b

\* The sequence of the values of f, a function on 1..n, each computed once.
Tuple(f) == f \o << >>

\* s[from:to] of Python for 0 <= from, with both ends clipped to the length.
Slice(s, from, to) ==
    LET n  == Len(s)
        lo == Min(from, n)
        hi == Min(Max(to, lo), n)
    IN  SubSeq(s, lo + 1, hi)

\* s[::-1]
Reverse(s) == LET n == Len(s) IN Tuple([i \in 1..n |-> s[n + 1 - i]])

\* value * n for a one-element sequence, as in b'\x00' * n
Repeat(v, n) == Tuple([i \in 1..n |-> v])

\* The sequence without its leading zeros: lstrip('0') on bits, and the
\* normal form of an integer's digits.
StripZeros(s) ==
    LET nz == {i \in 1..Len(s) : s[i] # 0}
    IN  IF nz = {} THEN << >>
        ELSE LET f == CHOOSE i \in nz : \A j \in nz : i <= j
             IN  SubSeq(s, f, Len(s))

\* str.zfill(n): zeros on the left up to n characters, never a cut.
ZFill(s, n) == IF Len(s) >= n THEN s ELSE Repeat(0, n - Len(s)) \o s

\* bytes comparison of Python: lexicographic, a proper prefix is smaller.
BytesLess(a, b) ==
    LET n == Min(Len(a), Len(b))
        d == {i \in 1..n : a[i] # b[i]}
    IN  IF d = {} THEN Len(a) < Len(b)
        ELSE LET f == CHOOSE i \in d : \A j \in d : i <= j IN a[f] < b[f]

BytesLeq(a, b) == a = b \/ BytesLess(a, b)

\* ------------------------------------------------------ integers (base 256)

Pow2(n) == <<1, 2, 4, 8, 16, 32, 64, 128, 256>>[n + 1]

\* Digit i of a, counted from the least significant digit 0.
Digit(a, i) == IF i < Len(a) THEN a[Len(a) - i] ELSE 0

\* int.from_bytes(b, 'big')
IntFromBytes(b) == StripZeros(b)

\* a + b, digit by digit from the least significant digit k on.
RECURSIVE AddDigits(_, _, _, _)
AddDigits(a, b, k, carry) ==
    IF k >= Len(a) /\ k >= Len(b)
    THEN IF carry = 0 THEN << >> ELSE <<carry>>
    ELSE Append(AddDigits(a, b, k + 1, (Digit(a, k) + Digit(b, k) + carry) \div 256),
                (Digit(a, k) + Digit(b, k) + carry) % 256)

AddN(a, b) == AddDigits(a, b, 0, 0)

\* a < b on normal forms
LessN(a, b) ==
    IF Len(a) # Len(b) THEN Len(a) < Len(b) ELSE BytesLess(a, b)

\* a - b for a >= b
RECURSIVE SubDigits(_, _, _, _)
SubDigits(a, b, k, borrow) ==
    IF k >= Len(a) THEN << >>
    ELSE Append(SubDigits(a, b, k + 1,
                          IF Digit(a, k) - Digit(b, k) - borrow < 0 THEN 1 ELSE 0),
                (Digit(a, k) - Digit(b, k) - borrow + 256) % 256)

SubN(a, b) == StripZeros(SubDigits(a, b, 0, 0))

\* a * m for 1 <= m <= 128
RECURSIVE MulDigits(_, _, _, _)
MulDigits(a, m, k, carry) ==
    IF k >= Len(a)
    THEN IF carry = 0 THEN << >> ELSE <<carry>>
    ELSE Append(MulDigits(a, m, k + 1, (Digit(a, k) * m + carry) \div 256),
                (Digit(a, k) * m + carry) % 256)

\* a << s for 0 <= s <= 31
ShlN(a, s) ==
    IF a = << >> THEN << >>
    ELSE MulDigits(a, Pow2(s % 8), 0, 0) \o Repeat(0, s \div 8)

\* a >> s for 0 <= s <= 31
ShrN(a, s) ==
    LET q == s \div 8
        m == Pow2(s % 8)
        b == Slice(a, 0, Len(a) - q)
        n == Len(b)
        d == [i \in 1..n |->
                 LET k == n - i
                 IN  (Digit(b, k) \div m) + (Digit(b, k + 1) % m) * (256 \div m)]
    IN  StripZeros(Tuple(d))

\* ------------------------------------------------------------ bits and bytes

\* format(byte, '08b') for every byte
Format08b == [byte \in 0..255 |-> [j \in 1..8 |-> (byte \div Pow2(8 - j)) % 2]]

\* ''.join(format(byte, '08b') for byte in b)
BitsOfBytes(b) ==
    Tuple([i \in 1..(8 * Len(b)) |->
              Format08b[b[((i - 1) \div 8) + 1]][((i - 1) % 8) + 1]])

\* The byte whose eight bits are s[from+1 .. from+8].
ByteOfBits(s, from) ==
    s[from + 1] * 128 + s[from + 2] * 64 + s[from + 3] * 32 + s[from + 4] * 16
    + s[from + 5] * 8 + s[from + 6] * 4 + s[from + 7] * 2 + s[from + 8]

\* bin(v)[2:]
Bin(v) == IF v = << >> THEN <<0>> ELSE StripZeros(BitsOfBytes(v))

\* int(s, 2) for a non-empty string of bits
IntOfBits(s) ==
    LET p == ZFill(s, ((Len(s) + 7) \div 8) * 8)
    IN  StripZeros(Tuple([i \in 1..(Len(p) \div 8) |-> ByteOfBits(p, 8 * (i - 1))]))

\* util.binary_to_bytes
binary_to_bytes(bit_str) ==
    LET padded_bit_str == ZFill(bit_str, ((Len(bit_str) + 7) \div 8) * 8)
        byte_len == Len(padded_bit_str) \div 8
    IN  Tuple([i \in 1..byte_len |-> ByteOfBits(padded_bit_str, 8 * (i - 1))])

\* util.bytes_to_binary
bytes_to_binary(byte_data) == StripZeros(BitsOfBytes(byte_data))

\* a ^ b on half bytes, and on bytes
Xor4 ==
    [a \in 0..15 |-> [b \in 0..15 |->
        ((a + b) % 2) + 2 * (((a \div 2) + (b \div 2)) % 2)
        + 4 * (((a \div 4) + (b \div 4)) % 2) + 8 * (((a \div 8) + (b \div 8)) % 2)]]

Xor8(a, b) == 16 * Xor4[a \div 16][b \div 16] + Xor4[a % 16][b % 16]

XorBytes(a, b) == Tuple([i \in 1..Len(a) |-> Xor8(a[i], b[i])])

\* ------------------------------------------------------------ Python values

\* A Python object handed to the engine as a key: its type and, for the sized
\* types, its elements.
PyBytes(v) == [type |-> "bytes", val |-> v]

PyStr(v) == [type |-> "str", val |-> v]

PyInt == [type |-> "int", val |-> << >>]

\* isinstance(k, bytes)
IsBytes(k) == k.type = "bytes"

\* The outcome of a call: err is "none" or the name of the exception raised.
Raise(kind) == [err |-> kind]

\* --------------------------------------------------------------- key module

\* key.rotate_left: circular rotation of an 8-bit value by n mod 8 places.
rotate_left(byte, n) ==
    LET r == n % 8
    IN  ((byte * Pow2(r)) % 256) + (byte \div Pow2(8 - r))

\* key.split_key on a 16-byte key: three 4-byte parts, their byte-wise XOR as
\* the fourth part, and the last four bytes as the shift amounts.
split_key(key) ==
    LET p0 == Slice(key, 0, 4)
        p1 == Slice(key, 4, 8)
        p2 == Slice(key, 8, 12)
    IN  [parts  |-> <<p0, p1, p2, XorBytes(XorBytes(p0, p1), p2)>>,
         shifts |-> Slice(key, 12, 16)]

\* key.reshuffle on a 16-byte key: the parts rotated by one place and every
\* byte rotated left by a position-dependent amount; deterministic.
reshuffle(key) ==
    [type |-> key.type,
     val  |-> Tuple([i \in 1..KEY_SIZE |->
                  rotate_left(key.val[((i + 3) % KEY_SIZE) + 1], ((i - 1) % 7) + 1)])]

\* ------------------------------------------------------------- block cipher

\* bin(int(MAX_128_BIT * value / MAX_32_BIT))[2:] for a block of at most four
\* bytes.  MAX_128_BIT = MAX_32_BIT * (2^96 + 2^64 + 2^32 + 1), so the exact
\* quotient is the 32-bit form of value written four times; Python's true
\* division returns the float nearest to it (53 significant bits, ties to
\* even) and int() of that float is exact.
IncBits(b) ==
    LET zs == {i \in 1..Len(b) : b[i] = 0}
    IN  IF zs = {} THEN <<1>> \o Repeat(0, Len(b))
        ELSE LET j == CHOOSE i \in zs : \A k \in zs : k <= i
             IN  Tuple([i \in 1..Len(b) |->
                            IF i < j THEN b[i] ELSE IF i = j THEN 1 ELSE 0])

FloatRound(t) ==
    IF Len(t) <= 53 THEN t
    ELSE LET top  == Slice(t, 0, 53)
             rest == Slice(t, 53, Len(t))
             more == \E i \in 2..Len(rest) : rest[i] = 1
             up   == rest[1] = 1 /\ (more \/ top[53] = 1)
         IN  (IF up THEN IncBits(top) ELSE top) \o Repeat(0, Len(rest))

FourTimes(w) == StripZeros(w \o w \o w \o w)

RoundedQuotient(q) == IF q = << >> THEN <<0>> ELSE FloatRound(q)

PaddingBits(block) == RoundedQuotient(FourTimes(ZFill(BitsOfBytes(block), 32)))

\* The shift of a round taken from the whole shift byte.
ShiftRoundUnmasked(value, shift_byte, i) ==
    IF i # 4 THEN ShlN(value, shift_byte) ELSE value

\* The four additions and three shifts of encrypt_block.
\* value <<= shifts[i] & SHIFT_MASK, for every round but the last.
ShiftRound(value, shift_byte, i) ==
    IF i # 4 THEN ShlN(value, shift_byte % (SHIFT_MASK + 1)) ELSE value

RECURSIVE EncryptRounds(_, _, _, _)
EncryptRounds(value, parts, shifts, i) ==
    IF i > 4 THEN value
    ELSE EncryptRounds(ShiftRound(AddN(value, IntFromBytes(parts[i])), shifts[i], i),
                       parts, shifts, i + 1)

\* The integer encrypt_block computes for block under the 16-byte key.
EncryptWith(block, sk) == EncryptRounds(IntFromBytes(block), sk.parts, sk.shifts, 1)

EncryptedInt(block, key) == EncryptWith(block, split_key(key))

\* encrypt_block filling the block with zeros only, without the padding.
AssembleZeroFilled(binary_padding, binary_encrypted) == ZFill(binary_encrypted, 128)

\* The 128 characters encrypt_block assembles from the padding and the bits.
AssembleBlock(binary_padding, binary_encrypted) ==
    ZFill(Slice(binary_padding, 0, 128 - Len(binary_encrypted)) \o binary_encrypted, 128)

\* encrypt_block returning the length of the assembled block.
BlockResultPadded(binary_padding, binary_encrypted) ==
    [err    |-> "none",
     block  |-> binary_to_bytes(AssembleBlock(binary_padding, binary_encrypted)),
     length |-> Len(AssembleBlock(binary_padding, binary_encrypted))]

\* What encrypt_block returns: the 16 bytes and len(binary_encrypted).
BlockResult(binary_padding, binary_encrypted) ==
    [err    |-> "none",
     block  |-> binary_to_bytes(AssembleBlock(binary_padding, binary_encrypted)),
     length |-> Len(binary_encrypted)]

\* BMDOPE.encrypt_block
encrypt_block(block, key) ==
    IF ~IsBytes(key) THEN Raise("ValueError")
    ELSE IF Len(key.val) # KEY_SIZE THEN Raise("ValueError")
    ELSE IF Len(block) > 4 THEN Raise("ValueError")
    ELSE BlockResult(ZFill(PaddingBits(block), 128),
                     Bin(EncryptedInt(block, key.val)))

\* The shifts and subtractions of decrypt_block, i from 4 down to 1.  A
\* negative intermediate value stays negative: a right shift of a negative
\* int is negative, and only non-negative parts are subtracted from it.
\* value >>= shifts[i] & SHIFT_MASK, for every round but the last.
UnshiftRound(value, shift_byte, i) ==
    IF i # 4 THEN ShrN(value, shift_byte % (SHIFT_MASK + 1)) ELSE value

RECURSIVE DecryptRounds(_, _, _, _)
RECURSIVE SubtractRound(_, _, _, _, _)
DecryptRounds(value, parts, shifts, i) ==
    IF i < 1 THEN [neg |-> FALSE, v |-> value]
    ELSE SubtractRound(UnshiftRound(value, shifts[i], i), IntFromBytes(parts[i]),
                       parts, shifts, i)

SubtractRound(shifted, part, parts, shifts, i) ==
    IF LessN(shifted, part) THEN [neg |-> TRUE, v |-> << >>]
    ELSE DecryptRounds(SubN(shifted, part), parts, shifts, i - 1)

DecryptWith(value, sk) == DecryptRounds(value, sk.parts, sk.shifts, 4)

\* value.to_bytes(byte_length, 'big') with byte_length the least number of
\* bytes that holds value, 1 for 0; a negative value raises OverflowError.
ToBytes(value) ==
    IF value.neg THEN Raise("OverflowError")
    ELSE [err |-> "none", out |-> IF value.v = << >> THEN <<0>> ELSE value.v]

\* BMDOPE.decrypt_block; encrypted_value is a string of bits.
decrypt_block(encrypted_value, key) ==
    IF ~IsBytes(key) THEN Raise("ValueError")
    ELSE IF Len(key.val) # KEY_SIZE THEN Raise("ValueError")
    ELSE IF encrypted_value = << >> THEN Raise("ValueError")
    ELSE ToBytes(DecryptWith(IntOfBits(encrypted_value), split_key(key.val)))

\* ----------------------------------------------------------- metadata codec

\* The block cipher of the cryptography package (AES-128) is an external
\* library.  It is modelled by what the codec relies on: for every key a
\* bijection on 16-byte blocks, with its inverse.
AESEncryptBlock(key, b) ==
    Tuple([i \in 1..BLOCK_SIZE |-> (b[BLOCK_SIZE + 1 - i] + key[i] + i) % 256])

AESDecryptBlock(key, c) ==
    Tuple([j \in 1..BLOCK_SIZE |->
              LET i == BLOCK_SIZE + 1 - j IN (c[i] - key[i] - i + 512) % 256])

\* encryptor.update(data) + encryptor.finalize() in CBC mode: block n is the
\* cipher applied to plaintext block n XOR ciphertext block n-1 (the IV first).
RECURSIVE CBCEncrypt(_, _, _)
RECURSIVE CBCChain(_, _, _)
CBCEncrypt(key, prev, data) ==
    IF Len(data) < BLOCK_SIZE THEN << >>
    ELSE CBCChain(key, AESEncryptBlock(key, XorBytes(Slice(data, 0, BLOCK_SIZE), prev)),
                  data)

CBCChain(key, c, data) == c \o CBCEncrypt(key, c, Slice(data, BLOCK_SIZE, Len(data)))

\* decryptor.update(blocks[n]) for the n-th 16-byte block of ciphertext, n >= 1.
CBCDecryptBlock(key, iv, ciphertext, n) ==
    XorBytes(AESDecryptBlock(key, Slice(ciphertext, (n - 1) * BLOCK_SIZE, n * BLOCK_SIZE)),
             IF n = 1 THEN iv
             ELSE Slice(ciphertext, (n - 2) * BLOCK_SIZE, (n - 1) * BLOCK_SIZE))

\* The bytes encrypt_metadata encrypts: the entries, the sentinel, the padding.
PadMetadata(byte_array) ==
    LET padding_length ==
            (BLOCK_SIZE - ((Len(byte_array) + 1) % BLOCK_SIZE)) % BLOCK_SIZE
    IN  byte_array \o <<SENTINEL>> \o Repeat(padding_length, padding_length)

\* metadata.encrypt_metadata; byte_array is a list of ints, iv is bytes.
encrypt_metadata(byte_array, key, iv) ==
    IF ~IsBytes(key) \/ Len(key.val) # 16 THEN Raise("ValueError")
    ELSE IF \E i \in 1..Len(byte_array) : ~(0 <= byte_array[i] /\ byte_array[i] < 256)
         THEN Raise("ValueError")
    ELSE IF Len(iv) # 16 THEN Raise("ValueError")
    ELSE [err |-> "none",
          out |-> Reverse(CBCEncrypt(key.val, iv, PadMetadata(byte_array)))]

\* The index of the first element of s equal to v, 0 when there is none.
Find(s, v) ==
    LET hit == {i \in 1..Len(s) : s[i] = v}
    IN  IF hit = {} THEN 0 ELSE CHOOSE i \in hit : \A j \in hit : i <= j

\* The output decrypt_metadata accumulates: the decrypted blocks from block n
\* on, up to and including the first one that holds the sentinel.  A trailing
\* piece shorter than a block stays in the decryptor's buffer.
RECURSIVE DecryptedOutput(_, _, _, _)
RECURSIVE OutputFrom(_, _, _, _, _)
DecryptedOutput(key, iv, ciphertext, n) ==
    IF n * BLOCK_SIZE > Len(ciphertext) THEN << >>
    ELSE OutputFrom(CBCDecryptBlock(key, iv, ciphertext, n), key, iv, ciphertext, n)

OutputFrom(decrypted, key, iv, ciphertext, n) ==
    IF Find(decrypted, SENTINEL) # 0 THEN decrypted
    ELSE decrypted \o DecryptedOutput(key, iv, ciphertext, n + 1)

\* decrypt_metadata cutting at find()'s result without testing it for -1.
CutUnguarded(decrypted_output) ==
    LET eof_index == Find(decrypted_output, SENTINEL)
    IN  IF eof_index # 0 THEN Slice(decrypted_output, 0, eof_index - 1)
        ELSE Slice(decrypted_output, 0, Len(decrypted_output) - 1)

\* What decrypt_metadata keeps of the accumulated output.
CutAtSentinel(decrypted_output) ==
    LET eof_index == Find(decrypted_output, SENTINEL)
    IN  IF eof_index # 0 THEN Slice(decrypted_output, 0, eof_index - 1)
        ELSE decrypted_output

\* metadata.decrypt_metadata
decrypt_metadata(encrypted_bytes, key, iv) ==
    IF ~IsBytes(key) \/ Len(key.val) # 16 THEN Raise("ValueError")
    ELSE IF Len(iv) # 16 THEN Raise("ValueError")
    ELSE [err |-> "none",
          out |-> CutAtSentinel(DecryptedOutput(key.val, iv, Reverse(encrypted_bytes), 1))]

\* ------------------------------------------------------------------- engine

\* The data cut from its start, the short block last.
SplitBlocksTail(data) ==
    LET n == (Len(data) + ENGINE_BLOCK_SIZE - 1) \div ENGINE_BLOCK_SIZE
    IN  Tuple([i \in 1..n |->
                 Slice(data, (i - 1) * ENGINE_BLOCK_SIZE,
                       Min(i * ENGINE_BLOCK_SIZE, Len(data)))])

\* The blocks encrypt and encrypt_bound cut the data into.
SplitBlocks(data) ==
    LET remainder == Len(data) % ENGINE_BLOCK_SIZE
        n == Len(data) \div ENGINE_BLOCK_SIZE
    IN  IF remainder = 0
        THEN Tuple([i \in 1..n |->
                 Slice(data, (i - 1) * ENGINE_BLOCK_SIZE, i * ENGINE_BLOCK_SIZE)])
        ELSE <<Slice(data, 0, remainder)>> \o
             [i \in 1..n |->
                 Slice(data, remainder + (i - 1) * ENGINE_BLOCK_SIZE,
                       remainder + i * ENGINE_BLOCK_SIZE)]

\* The loop of encrypt and encrypt_bound over blocks[i..], from the working
\* key current_key.  An exception leaves the loop with the working key as it
\* stands.
RECURSIVE EncryptLoop(_, _, _, _, _)
RECURSIVE EncryptStep(_, _, _, _, _, _)
EncryptLoop(blocks, i, current_key, encrypted_blocks, metadata) ==
    IF i > Len(blocks)
    THEN [err |-> "none", encrypted_blocks |-> encrypted_blocks,
          metadata |-> metadata, current_key |-> current_key]
    ELSE EncryptStep(encrypt_block(blocks[i], current_key), blocks, i, current_key,
                     encrypted_blocks, metadata)

EncryptStep(r, blocks, i, current_key, encrypted_blocks, metadata) ==
    IF r.err # "none"
    THEN [err |-> r.err, encrypted_blocks |-> encrypted_blocks,
          metadata |-> metadata, current_key |-> current_key]
    ELSE EncryptLoop(blocks, i + 1, reshuffle(current_key),
                     encrypted_blocks \o r.block, Append(metadata, r.length))

\* The result of encrypt once the loop and encrypt_metadata have run.
EncryptResult(loop, encrypted_metadata, iv) ==
    [err |-> IF loop.err # "none" THEN loop.err ELSE encrypted_metadata.err,
     out |-> IF loop.err = "none" /\ encrypted_metadata.err = "none"
             THEN loop.encrypted_blocks \o encrypted_metadata.out \o iv
             ELSE << >>,
     metadata |-> loop.metadata,
     encrypted_blocks |-> loop.encrypted_blocks,
     current_key |-> loop.current_key]

\* encrypt_metadata is reached only when the loop raised nothing.
AfterLoop(loop, key, iv) ==
    IF loop.err # "none" THEN Raise(loop.err)
    ELSE encrypt_metadata(loop.metadata, key, iv)

EncryptTail(loop, key, iv) == EncryptResult(loop, AfterLoop(loop, key, iv), iv)

\* BMDOPE.encrypt on an engine whose key is key, generate_key() returning iv.
encrypt(key, data, iv) ==
    EncryptTail(EncryptLoop(SplitBlocks(data), 1, key, << >>, << >>), key, iv)

\* encrypt_bound with the two fillings exchanged.
BoundsSwapped(encrypted_blocks, footer, lower_bound, upper_bound) ==
    [lower |-> encrypted_blocks \o
               (IF lower_bound THEN Repeat(255, Len(footer)) ELSE footer),
     upper |-> encrypted_blocks \o
               (IF upper_bound THEN Repeat(0, Len(footer)) ELSE footer)]

\* encrypt_bound filling both bounds whatever the flags are.
BoundsFilled(encrypted_blocks, footer, lower_bound, upper_bound) ==
    [lower |-> encrypted_blocks \o Repeat(0, Len(footer)),
     upper |-> encrypted_blocks \o Repeat(255, Len(footer))]

\* lower_bound and upper_bound of encrypt_bound, footer being the encrypted
\* metadata followed by the IV.
Bounds(encrypted_blocks, footer, lower_bound, upper_bound) ==
    [lower |-> encrypted_blocks \o
               (IF lower_bound THEN Repeat(0, Len(footer)) ELSE footer),
     upper |-> encrypted_blocks \o
               (IF upper_bound THEN Repeat(255, Len(footer)) ELSE footer)]

\* BMDOPE.encrypt_bound once its loop and encrypt_metadata have run: e is what
\* encrypt computes from the same data, key and IV, e.out without its last
\* Len(e.out) - Len(e.encrypted_blocks) bytes being the blocks and the rest
\* the footer.
encrypt_bound_from(e, lower_bound, upper_bound) ==
    IF e.err # "none"
    THEN [err |-> e.err, bounds |-> [lower |-> << >>, upper |-> << >>],
          current_key |-> e.current_key]
    ELSE [err |-> "none",
          bounds |-> Bounds(e.encrypted_blocks,
                            Slice(e.out, Len(e.encrypted_blocks), Len(e.out)),
                            lower_bound, upper_bound),
          current_key |-> e.current_key]

\* BMDOPE.encrypt_bound: lines 113-130 are those of encrypt.
encrypt_bound(key, data, lower_bound, upper_bound, iv) ==
    encrypt_bound_from(encrypt(key, data, iv), lower_bound, upper_bound)

\* decrypt handing the whole chunk to decrypt_block.
WholeBlock(block, length) == block

\* block[-length:] on a string
LastBits(block, length) ==
    IF length = 0 THEN block
    ELSE Slice(block, Max(Len(block) - length, 0), Len(block))

\* The loop of decrypt over metadata[i..].
RECURSIVE DecryptLoop(_, _, _, _, _)
RECURSIVE DecryptStep(_, _, _, _, _, _)
DecryptLoop(encrypted_data, metadata, i, current_key, decrypted_data) ==
    IF i > Len(metadata)
    THEN [err |-> "none", out |-> decrypted_data, current_key |-> current_key]
    ELSE DecryptStep(
             decrypt_block(
                 LastBits(bytes_to_binary(Slice(encrypted_data, (i - 1) * 16, i * 16)),
                          metadata[i]),
                 current_key),
             encrypted_data, metadata, i, current_key, decrypted_data)

DecryptStep(r, encrypted_data, metadata, i, current_key, decrypted_data) ==
    IF r.err # "none"
    THEN [err |-> r.err, out |-> << >>, current_key |-> current_key]
    ELSE DecryptLoop(encrypted_data, metadata, i + 1, reshuffle(current_key),
                     decrypted_data \o r.out)

\* encrypted_data with zeros in front up to a multiple of 16 bytes.
PadFront(encrypted_data) ==
    Repeat(0, (16 - (Len(encrypted_data) % 16)) % 16) \o encrypted_data

\* The loop runs on the metadata decrypt_metadata returned.
DecryptWithMetadata(metadata, key, padded) ==
    IF metadata.err # "none"
    THEN [err |-> metadata.err, out |-> << >>, current_key |-> key]
    ELSE DecryptLoop(padded, metadata.out, 1, key, << >>)

DecryptPadded(key, padded) ==
    DecryptWithMetadata(
        decrypt_metadata(Slice(padded, 0, Len(padded) - 16), key,
                         Slice(padded, Max(Len(padded) - 16, 0), Len(padded))),
        key, padded)

\* The body of the try statement of decrypt.
DecryptBody(key, encrypted_data) == DecryptPadded(key, PadFront(encrypted_data))

\* decrypt with "except ValueError": the other exceptions leave as they are.
ReraiseValueError(r) ==
    IF r.err = "ValueError"
    THEN [err |-> "DecryptionError", cause |-> r.err, out |-> << >>,
          current_key |-> r.current_key]
    ELSE [err |-> r.err, cause |-> r.err, out |-> r.out,
          current_key |-> r.current_key]

\* except Exception: every exception of the body is raised again as
\* DecryptionError.
Reraise(r) ==
    IF r.err # "none"
    THEN [err |-> "DecryptionError", cause |-> r.err, out |-> << >>,
          current_key |-> r.current_key]
    ELSE [err |-> "none", cause |-> "none", out |-> r.out,
          current_key |-> r.current_key]

\* BMDOPE.decrypt
decrypt(key, encrypted_data) == Reraise(DecryptBody(key, encrypted_data))

\* A call keeping the working key the last call left on the engine.
EntryKeyKept(self_key, self_current_key) == self_current_key

\* self.__current_key = self.key, the first statement of encrypt, decrypt and
\* encrypt_bound, on an engine whose fields are self_key and self_current_key:
\* the working key the loop starts from.
EntryKey(self_key, self_current_key) == self_key

\* BMDOPE.encrypt on an engine in any state.
encrypt_on(self_key, self_current_key, data, iv) ==
    EncryptTail(EncryptLoop(SplitBlocks(data), 1,
                            EntryKey(self_key, self_current_key), << >>, << >>),
                self_key, iv)

\* decrypt_metadata runs under self.key, the loop from the working key.
DecryptPaddedOn(self_key, start, padded) ==
    DecryptWithMetadata(
        decrypt_metadata(Slice(padded, 0, Len(padded) - 16), self_key,
                         Slice(padded, Max(Len(padded) - 16, 0), Len(padded))),
        start, padded)

\* BMDOPE.decrypt on an engine in any state.
decrypt_on(self_key, self_current_key, encrypted_data) ==
    Reraise(DecryptPaddedOn(self_key, EntryKey(self_key, self_current_key),
                            PadFront(encrypted_data)))

\* ------------------------------------------------------------------ inputs

\* The byte values plaintexts are made of.
ByteAlphabet == {0, 255}

RECURSIVE StringsOfLen(_)
StringsOfLen(n) ==
    IF n = 0 THEN {<< >>}
    ELSE {<<b>> \o s : b \in ByteAlphabet, s \in StringsOfLen(n - 1)}

Plaintexts == UNION {StringsOfLen(n) : n \in 0..MaxLen}

\* 16-byte keys: mixed bytes with shifts 13..16, all ones (every shift 31, an
\* encrypted block of more than 96 bits), all zeros.
KeyMixed == [i \in 1..16 |-> i]

KeyOnes == [i \in 1..16 |-> 255]

KeyZeros == [i \in 1..16 |-> 0]

ValidKeys == {KeyMixed, KeyOnes, KeyZeros}

\* What a caller may hand to the constructor.
KeyArgs ==
    {PyBytes(k) : k \in ValidKeys}
    \cup {PyBytes(<<115, 104, 111, 114, 116>>), PyStr(KeyMixed),
          PyStr(<<115, 104, 111, 114, 116>>), PyInt}

\* The values os.urandom(16) returns in the model.
IVs == {[i \in 1..16 |-> 16 * i - 1], [i \in 1..16 |-> (7 * i) % 256]}

\* How a caller derives the argument of decrypt from the last ciphertext c:
\* c itself, c without its last byte, c with the first bit of its first chunk
\* flipped, c with the last bit of its IV flipped, and the empty string.
DecryptInputs == {"intact", "truncated", "padding", "iv", "empty"}

FlipAt(c, i, mask) == [c EXCEPT ![i] = Xor8(c[i], mask)]

DecryptInput(kind, c) ==
    IF kind = "intact" THEN c
    ELSE IF kind = "truncated" THEN Slice(c, 0, Len(c) - 1)
    ELSE IF kind = "padding" THEN FlipAt(c, 1, 128)
    ELSE IF kind = "iv" THEN FlipAt(c, Len(c), 1)
    ELSE << >>

\* The working key of the loops of encrypt and decrypt at block i.
RECURSIVE KeyAt(_, _)
KeyAt(key, i) == IF i <= 1 THEN key ELSE reshuffle(KeyAt(key, i - 1))

\* A key every operation accepts: a bytes object of 16 bytes.
ValidKey(k) == IsBytes(k) /\ Len(k.val) = KEY_SIZE

\* The pairs x < y of equal length the order of ciphertexts is compared on.
OrderPairs ==
    {p \in (UNION {StringsOfLen(n) \X StringsOfLen(n) : n \in 1..MaxOrderLen}) :
        BytesLess(p[1], p[2])}

\* The metadata sequences handed to the codec: short ones over three values,
\* and long ones around one cipher block (15 entries fill it with the sentinel).
MetaValues == {0, 12, 255}

MetaLists ==
    {<< >>} \cup {<<a>> : a \in MetaValues}
    \cup {<<a, b>> : a \in MetaValues, b \in MetaValues}
    \cup {[i \in 1..n |-> (17 * i) % 255] : n \in 14..MaxMeta}
    \cup {[i \in 1..n |-> IF i = n THEN 255 ELSE i] : n \in 14..MaxMeta}

\* The keys handed to the codec.
CodecKeys == {PyBytes(KeyMixed), PyBytes(KeyOnes), PyStr(KeyMixed)}

\* What precedes the metadata ciphertext in the argument of decrypt_metadata.
Prefixes == {<< >>, Repeat(0, 16), Repeat(255, 32)}

\* byte_array with zeros up to the next multiple of 16 bytes: a plaintext of
\* whole cipher blocks, without the sentinel when byte_array has none.
ZeroPadded(byte_array) ==
    byte_array \o Repeat(0, BLOCK_SIZE - (Len(byte_array) % BLOCK_SIZE))

\* ------------------------------------------------- overlapping invocations

\* The invocations that run on the one engine at the same time.
Invocations == {1, 2}

\* generate_key() of the calls that overlap.
SharedIV == [i \in 1..16 |-> 16 * i - 1]

\* The locals of an invocation of encrypt or decrypt: where it stands (pc),
\* its argument, blocks, metadata, loop index i and accumulator acc
\* (encrypted_blocks or decrypted_data), what it returned or raised; used and
\* usedAt are the working keys its block steps read and the number of
\* reshuffles since the last reset they were read at.
NoInvocation ==
    [pc |-> "idle", op |-> "none", arg |-> << >>, blocks |-> << >>,
     metadata |-> << >>, i |-> 1, acc |-> << >>, err |-> "none", out |-> << >>,
     used |-> << >>, usedAt |-> << >>]

\* encrypt up to the loop: the blocks of data.
BeginEncrypt(data) ==
    [NoInvocation EXCEPT !.pc = "loop", !.op = "encrypt", !.arg = data,
                         !.blocks = SplitBlocks(data)]

\* decrypt up to the loop: encrypted_data padded, the metadata read under
\* self.key; an exception of decrypt_metadata ends the call.
BeginDecryptWith(metadata, padded) ==
    IF metadata.err # "none"
    THEN [NoInvocation EXCEPT !.pc = "done", !.op = "decrypt", !.arg = padded,
                              !.err = "DecryptionError"]
    ELSE [NoInvocation EXCEPT !.pc = "loop", !.op = "decrypt", !.arg = padded,
                              !.metadata = metadata.out]

BeginDecryptPadded(self_key, padded) ==
    BeginDecryptWith(
        decrypt_metadata(Slice(padded, 0, Len(padded) - 16), self_key,
                         Slice(padded, Max(Len(padded) - 16, 0), Len(padded))),
        padded)

BeginDecrypt(self_key, encrypted_data) ==
    BeginDecryptPadded(self_key, PadFront(encrypted_data))

\* The number of passes the loop of the invocation makes.
Passes(inv) == IF inv.op = "encrypt" THEN Len(inv.blocks) ELSE Len(inv.metadata)

\* A block step under the key the invocation would hold on its own,
\* whatever the engine's working key is.
ProcessBlockPrivate(inv, self_key, self_current_key) ==
    IF inv.op = "encrypt"
    THEN encrypt_block(inv.blocks[inv.i], KeyAt(self_key, inv.i))
    ELSE decrypt_block(
             LastBits(bytes_to_binary(Slice(inv.arg, (inv.i - 1) * 16, inv.i * 16)),
                      inv.metadata[inv.i]),
             KeyAt(self_key, inv.i))

\* self.encrypt_block(block, self.__current_key) of encrypt,
\* self.decrypt_block(slice_bits, self.__current_key) of decrypt: the block
\* of pass inv.i under the working key of the engine.
ProcessBlock(inv, self_key, self_current_key) ==
    IF inv.op = "encrypt"
    THEN encrypt_block(inv.blocks[inv.i], self_current_key)
    ELSE decrypt_block(
             LastBits(bytes_to_binary(Slice(inv.arg, (inv.i - 1) * 16, inv.i * 16)),
                      inv.metadata[inv.i]),
             self_current_key)

\* The locals after the pass that got r from encrypt_block or decrypt_block:
\* an exception ends encrypt as it is and decrypt as DecryptionError.
AfterBlock(inv, r) ==
    IF r.err # "none"
    THEN [inv EXCEPT !.pc = "done",
                     !.err = IF inv.op = "encrypt" THEN r.err ELSE "DecryptionError"]
    ELSE IF inv.op = "encrypt"
    THEN [inv EXCEPT !.i = @ + 1, !.acc = @ \o r.block,
                     !.metadata = Append(@, r.length)]
    ELSE [inv EXCEPT !.i = @ + 1, !.acc = @ \o r.out]

\* self.__current_key = reshuffle(self.__current_key) closes a pass that
\* raised nothing.
KeyAfterBlock(self_current_key, r) ==
    IF r.err # "none" THEN self_current_key ELSE reshuffle(self_current_key)

\* What the invocation returns once its loop is over: encrypt appends the
\* encrypted metadata and the IV, decrypt returns decrypted_data.
ReturnEncrypt(inv, encrypted_metadata, iv) ==
    IF encrypted_metadata.err # "none"
    THEN [inv EXCEPT !.pc = "done", !.err = encrypted_metadata.err]
    ELSE [inv EXCEPT !.pc = "done", !.out = inv.acc \o encrypted_metadata.out \o iv]

Return(inv, self_key, iv) ==
    IF inv.op = "encrypt"
    THEN ReturnEncrypt(inv, encrypt_metadata(inv.metadata, self_key, iv), iv)
    ELSE [inv EXCEPT !.pc = "done", !.out = inv.acc]

\* -------------------------------------------------------------------- state

VARIABLES
    keyArg,       \* the argument of the constructor
    data,         \* the plaintext the caller works with
    other,        \* a second plaintext of the caller (order comparisons)
    phase,        \* "new", "ready" (an engine exists), "failed" (__init__ raised)
    key,          \* self.key
    current_key,  \* self.__current_key
    call,         \* the last call: its name, arguments, result and exception
    enc,          \* the last successful encrypt(data)
    encOther,     \* the last successful encrypt(other)
    codec,        \* the metadata codec called on its own
    running       \* the invocations that overlap on the engine

vars == <<keyArg, data, other, phase, key, current_key, call, enc, encOther, codec,
          running>>

NoCall ==
    [op |-> "none", err |-> "none", cause |-> "none", out |-> << >>,
     lower |-> << >>, upper |-> << >>, lower_bound |-> FALSE,
     upper_bound |-> FALSE, input |-> "none", arg |-> << >>, start |-> PyInt,
     found |-> PyInt, iv |-> << >>, length |-> 0]

NoEnc ==
    [valid |-> FALSE, data |-> << >>, iv |-> << >>, out |-> << >>,
     metadata |-> << >>, encrypted_blocks |-> << >>]

NoCodec ==
    [op |-> "none", byte_array |-> << >>, key |-> PyInt, iv |-> << >>,
     prefix |-> << >>, plain |-> << >>, ciphertext |-> << >>, arg |-> << >>,
     err |-> "none", out |-> << >>]

\* ------------------------------------------------------------------ actions

\* BMDOPE.__init__(key): the guard raises ValueError only when the key is not
\* bytes and its length is not 16; len() of an unsized object raises TypeError.
\* No invocation has begun; since counts the reshuffles of the working key
\* since it was last set to self.key.
NoRunning == [since |-> 0, inv |-> [t \in Invocations |-> NoInvocation]]

InitError(k) ==
    IF IsBytes(k) THEN "none"
    ELSE IF k.type = "int" THEN "TypeError"
    ELSE IF Len(k.val) # 16 THEN "ValueError"
    ELSE "none"

Construct ==
    /\ phase = "new"
    /\ \E e \in {InitError(keyArg)} :
           /\ phase' = IF e = "none" THEN "ready" ELSE "failed"
           /\ key' = IF e = "none" THEN keyArg ELSE key
           /\ current_key' = IF e = "none" THEN keyArg ELSE current_key
           /\ call' = [NoCall EXCEPT !.op = "init", !.err = e]
    /\ UNCHANGED <<keyArg, data, other, enc, encOther, codec, running>>

\* What the model records of a call of encrypt that returned or raised r.
Recorded(r, arg, iv) ==
    IF r.err = "none"
    THEN [valid |-> TRUE, data |-> arg, iv |-> iv, out |-> r.out,
          metadata |-> r.metadata, encrypted_blocks |-> r.encrypted_blocks]
    ELSE NoEnc

\* encrypt(data), generate_key() drawing any IV.
Encrypt ==
    /\ phase = "ready"
    /\ \E iv \in IVs : \E r \in {encrypt_on(key, current_key, data, iv)} :
         /\ call' = [NoCall EXCEPT !.op = "encrypt", !.err = r.err,
                                   !.out = r.out, !.arg = data,
                                   !.start = EntryKey(key, current_key),
                                   !.found = current_key]
         /\ enc' = Recorded(r, data, iv)
         /\ current_key' = r.current_key
    /\ UNCHANGED <<keyArg, data, other, phase, key, encOther, codec, running>>

\* encrypt(other) on the same engine.
EncryptOther ==
    /\ phase = "ready"
    /\ other # data
    /\ \E iv \in IVs : \E r \in {encrypt_on(key, current_key, other, iv)} :
         /\ call' = [NoCall EXCEPT !.op = "encrypt", !.err = r.err,
                                   !.out = r.out, !.arg = other,
                                   !.start = EntryKey(key, current_key),
                                   !.found = current_key]
         /\ encOther' = Recorded(r, other, iv)
         /\ current_key' = r.current_key
    /\ UNCHANGED <<keyArg, data, other, phase, key, enc, codec, running>>

\* decrypt(c) for c derived from the last ciphertext, or the empty string.
Decrypt ==
    /\ phase = "ready"
    /\ \E kind \in DecryptInputs :
         /\ kind # "empty" => enc.valid
         /\ kind = "padding" => enc.encrypted_blocks # << >>
         /\ \E arg \in {DecryptInput(kind, enc.out)} :
            \E r \in {decrypt_on(key, current_key, arg)} :
                /\ call' = [NoCall EXCEPT !.op = "decrypt", !.err = r.err,
                                          !.cause = r.cause, !.out = r.out,
                                          !.input = kind, !.arg = arg,
                                          !.start = EntryKey(key, current_key),
                                   !.found = current_key]
                /\ current_key' = r.current_key
    /\ UNCHANGED <<keyArg, data, other, phase, key, enc, encOther, codec, running>>

\* encrypt_bound(data, lower_bound, upper_bound)
EncryptBound ==
    /\ phase = "ready"
    /\ \E iv \in IVs : \E e \in {encrypt_on(key, current_key, data, iv)} :
       \E lower_bound \in BOOLEAN, upper_bound \in BOOLEAN :
       \E r \in {encrypt_bound_from(e, lower_bound, upper_bound)} :
             /\ call' = [NoCall EXCEPT !.op = "encrypt_bound", !.err = r.err,
                                       !.lower = r.bounds.lower,
                                       !.upper = r.bounds.upper,
                                       !.lower_bound = lower_bound,
                                       !.upper_bound = upper_bound,
                                       !.arg = data, !.iv = iv,
                                       !.start = EntryKey(key, current_key),
                                       !.found = current_key]
             /\ current_key' = r.current_key
    /\ UNCHANGED <<keyArg, data, other, phase, key, enc, encOther, codec, running>>

\* encrypt_metadata(byte_array, key, iv)
MetaEncrypt ==
    /\ codec.op = "new"
    /\ \E r \in {encrypt_metadata(codec.byte_array, codec.key, codec.iv)} :
         codec' = [codec EXCEPT !.op = "encrypt", !.err = r.err,
                                !.ciphertext = IF r.err = "none" THEN r.out ELSE << >>]
    /\ UNCHANGED <<keyArg, data, other, phase, key, current_key, call, enc, encOther,
                   running>>

\* decrypt_metadata(prefix + ciphertext, key, iv) on what encrypt_metadata
\* returned.
MetaDecrypt ==
    /\ codec.op = "encrypt"
    /\ codec.err = "none"
    /\ \E arg \in {codec.prefix \o codec.ciphertext} :
       \E r \in {decrypt_metadata(arg, codec.key, codec.iv)} :
         codec' = [codec EXCEPT !.op = "decrypt", !.arg = arg, !.err = r.err,
                                !.out = IF r.err = "none" THEN r.out ELSE << >>]
    /\ UNCHANGED <<keyArg, data, other, phase, key, current_key, call, enc, encOther,
                   running>>

\* decrypt_metadata on the reversed CBC encryption of whole blocks that hold
\* no sentinel.
MetaDecryptRaw ==
    /\ codec.op = "new"
    /\ Find(codec.byte_array, SENTINEL) = 0
    /\ \E plain \in {ZeroPadded(codec.byte_array)} :
       \E arg \in {Reverse(CBCEncrypt(codec.key.val, codec.iv, plain))} :
       \E r \in {decrypt_metadata(arg, codec.key, codec.iv)} :
         codec' = [codec EXCEPT !.op = "decrypt_raw", !.plain = plain, !.arg = arg,
                                !.err = r.err,
                                !.out = IF r.err = "none" THEN r.out ELSE << >>]
    /\ UNCHANGED <<keyArg, data, other, phase, key, current_key, call, enc, encOther,
                   running>>

EngineInit ==
    /\ keyArg \in KeyArgs
    /\ data \in Plaintexts
    /\ phase = "new"
    /\ key = PyInt
    /\ current_key = PyInt
    /\ call = NoCall
    /\ enc = NoEnc
    /\ encOther = NoEnc
    /\ codec = NoCodec
    /\ running = NoRunning

\* One caller, one engine, one plaintext: the calls in any order.
Init == EngineInit /\ other = data

Next == Construct \/ Encrypt \/ Decrypt \/ EncryptBound

Spec == Init /\ [][Next]_vars

\* One caller, one engine on a 16-byte key, two plaintexts data < other of the
\* same length, each encrypted any number of times.
InitOrder ==
    /\ keyArg \in {PyBytes(k) : k \in ValidKeys}
    /\ \E p \in OrderPairs : data = p[1] /\ other = p[2]
    /\ phase = "new"
    /\ key = PyInt
    /\ current_key = PyInt
    /\ call = NoCall
    /\ enc = NoEnc
    /\ encOther = NoEnc
    /\ codec = NoCodec
    /\ running = NoRunning

NextOrder == Construct \/ Encrypt \/ EncryptOther

SpecOrder == InitOrder /\ [][NextOrder]_vars

\* The metadata codec called on its own.
InitMeta ==
    /\ keyArg = PyInt
    /\ data = << >>
    /\ other = << >>
    /\ phase = "new"
    /\ key = PyInt
    /\ current_key = PyInt
    /\ call = NoCall
    /\ enc = NoEnc
    /\ encOther = NoEnc
    /\ \E byte_array \in MetaLists, k \in CodecKeys, iv \in IVs, prefix \in Prefixes :
         codec = [NoCodec EXCEPT !.op = "new", !.byte_array = byte_array,
                                 !.key = k, !.iv = iv, !.prefix = prefix]
    /\ running = NoRunning

NextMeta == MetaEncrypt \/ MetaDecrypt \/ MetaDecryptRaw

SpecMeta == InitMeta /\ [][NextMeta]_vars

\* The plaintext of invocation t: the first works on data, the second on
\* other.
Argument(t) == IF t = 1 THEN data ELSE other

\* Invocation t enters encrypt(x), or decrypt(c) for a ciphertext c of x made
\* beforehand: the working key is set to self.key and the locals are set up.
SharedBegin(t) ==
    /\ phase = "ready"
    /\ running.inv[t].pc = "idle"
    /\ \E op \in {"encrypt", "decrypt"} :
       \E b \in {IF op = "encrypt" THEN BeginEncrypt(Argument(t))
                  ELSE BeginDecrypt(key, encrypt(key, Argument(t), SharedIV).out)} :
           running' = [since |-> 0, inv |-> [running.inv EXCEPT ![t] = b]]
    /\ current_key' = EntryKey(key, current_key)
    /\ UNCHANGED <<keyArg, data, other, phase, key, call, enc, encOther, codec>>

\* One pass of the loop of invocation t, not interrupted: it reads the
\* working key, processes its block and writes the reshuffled key back.
SharedStep(t) ==
    /\ running.inv[t].pc = "loop"
    /\ running.inv[t].i <= Passes(running.inv[t])
    /\ \E r \in {ProcessBlock(running.inv[t], key, current_key)} :
       \E b \in {AfterBlock(running.inv[t], r)} :
           /\ running' =
                  [since |-> IF r.err = "none" THEN running.since + 1
                             ELSE running.since,
                   inv |-> [running.inv EXCEPT
                               ![t] = [b EXCEPT !.used = Append(@, current_key),
                                                !.usedAt = Append(@, running.since)]]]
           /\ current_key' = KeyAfterBlock(current_key, r)
    /\ UNCHANGED <<keyArg, data, other, phase, key, call, enc, encOther, codec>>

\* Invocation t leaves its loop and returns.
SharedReturn(t) ==
    /\ running.inv[t].pc = "loop"
    /\ running.inv[t].i > Passes(running.inv[t])
    /\ running' = [running EXCEPT !.inv[t] = Return(running.inv[t], key, SharedIV)]
    /\ UNCHANGED <<keyArg, data, other, phase, key, current_key, call, enc, encOther,
                   codec>>

\* The blocks encrypt_block is called on by itself: up to 4 bytes.
BlockInputs == UNION {StringsOfLen(n) : n \in 0..ENGINE_BLOCK_SIZE}

\* The key-states encrypt_block is called under by itself: each of the three
\* 4-byte parts all zeros or all ones, each shift byte 0, 31 or 255.
BlockKeys ==
    {Repeat(a, 4) \o Repeat(b, 4) \o Repeat(c, 4) \o <<s1, s2, s3, 255>> :
        a \in ByteAlphabet, b \in ByteAlphabet, c \in ByteAlphabet,
        s1 \in {0, 31}, s2 \in {0, 255}, s3 \in {0, 31}}

\* encrypt_block(data, keyArg)
EncryptBlock ==
    /\ call.op = "none"
    /\ \E r \in {encrypt_block(data, keyArg)} :
           call' = [NoCall EXCEPT !.op = "encrypt_block", !.err = r.err,
                                 !.out = r.block, !.length = r.length,
                                 !.arg = data]
    /\ UNCHANGED <<keyArg, data, other, phase, key, current_key, enc, encOther,
                   codec, running>>

\* encrypt_block called on its own, on a block and a key-state.
InitBlock ==
    /\ keyArg \in {PyBytes(k) : k \in BlockKeys}
    /\ data \in BlockInputs
    /\ other = << >>
    /\ phase = "new"
    /\ key = PyInt
    /\ current_key = PyInt
    /\ call = NoCall
    /\ enc = NoEnc
    /\ encOther = NoEnc
    /\ codec = NoCodec
    /\ running = NoRunning

NextBlock == EncryptBlock

SpecBlock == InitBlock /\ [][NextBlock]_vars

\* The plaintexts that are cut into blocks on their own.
SplitInputs == UNION {StringsOfLen(n) : n \in 0..MaxSplit}

\* encrypt(data) up to its loop, on no engine in particular: the blocks.
Split ==
    /\ running.inv[1].pc = "idle"
    /\ running' = [running EXCEPT !.inv[1] = BeginEncrypt(data)]
    /\ UNCHANGED <<keyArg, data, other, phase, key, current_key, call, enc, encOther,
                   codec>>

\* The cutting of a plaintext into blocks, called on its own.
InitSplit ==
    /\ keyArg = PyInt
    /\ data \in SplitInputs
    /\ other = << >>
    /\ phase = "new"
    /\ key = PyInt
    /\ current_key = PyInt
    /\ call = NoCall
    /\ enc = NoEnc
    /\ encOther = NoEnc
    /\ codec = NoCodec
    /\ running = NoRunning

NextSplit == Split

SpecSplit == InitSplit /\ [][NextSplit]_vars

\* The concatenation of the blocks from the i-th on.
RECURSIVE JoinFrom(_, _)
JoinFrom(blocks, i) ==
    IF i > Len(blocks) THEN << >> ELSE blocks[i] \o JoinFrom(blocks, i + 1)

\* The plaintexts of the first invocation: zero bytes, then 0xFF bytes.
SharedData ==
    UNION {{Repeat(0, a) \o Repeat(255, n - a) : a \in 0..n} : n \in 0..MaxLen}

\* The plaintexts of the second invocation.
SharedOthers == {Repeat(255, n) : n \in {1, MaxLen}}

\* What invocation t returns when no other call runs on the engine meanwhile.
Sequential(t) ==
    IF running.inv[t].op = "encrypt"
    THEN encrypt(key, Argument(t), SharedIV)
    ELSE decrypt(key, running.inv[t].arg)

\* Every pass of invocation t read the working key of its own schedule:
\* pass i the root key reshuffled i - 1 times.
OnSchedule(t) ==
    \A i \in 1..Len(running.inv[t].used) :
        running.inv[t].used[i] = KeyAt(key, i)

\* One engine on a 16-byte key and two invocations of encrypt or decrypt on
\* it that may overlap, interleaved pass by pass.
InitShared ==
    /\ keyArg \in {PyBytes(KeyMixed), PyBytes(KeyOnes)}
    /\ data \in SharedData
    /\ other \in SharedOthers
    /\ phase = "new"
    /\ key = PyInt
    /\ current_key = PyInt
    /\ call = NoCall
    /\ enc = NoEnc
    /\ encOther = NoEnc
    /\ codec = NoCodec
    /\ running = NoRunning

NextShared ==
    \/ Construct
    \/ \E t \in Invocations : SharedBegin(t) \/ SharedStep(t) \/ SharedReturn(t)

SpecShared == InitShared /\ [][NextShared]_vars

\* ------------------------------------------------------------------ claims

\* C1: round trip.  On an engine built on a 16-byte key, decrypt of the
\* ciphertext encrypt returned for x returns x itself, same bytes and same
\* length, whatever x (empty, leading zero bytes) and whatever the IV drawn.
RoundTrip ==
    (ValidKey(key) /\ call.op = "decrypt" /\ call.input = "intact")
        => (call.err = "none" /\ call.out = enc.data)

\* C2: order preservation.  For a 16-byte key and two plaintexts x < y of the
\* same length, one engine returns encrypt(x) < encrypt(y) in the byte-wise
\* order, whatever IVs the two calls draw.
OrderPreserved ==
    (ValidKey(key) /\ enc.valid /\ encOther.valid)
        => BytesLess(enc.out, encOther.out)

\* C3: bound containment.  The pair (lower, upper) encrypt_bound(x, True,
\* True) returns encloses every ciphertext encrypt(x) returns on the same
\* engine, whatever the IVs: lower <= c <= upper byte-wise.
BoundContainment ==
    (call.op = "encrypt_bound" /\ call.err = "none" /\ call.lower_bound
        /\ call.upper_bound /\ enc.valid)
        => (BytesLeq(call.lower, enc.out) /\ BytesLeq(enc.out, call.upper))

\* C3 witness: both bounds of a two-block plaintext, strictly around a
\* ciphertext of it.
BoundContainmentWitness ==
    /\ call.op = "encrypt_bound" /\ call.err = "none"
    /\ call.lower_bound /\ call.upper_bound
    /\ enc.valid /\ Len(enc.data) > ENGINE_BLOCK_SIZE
    /\ BytesLess(call.lower, enc.out) /\ BytesLess(enc.out, call.upper)

\* C4: uniform failure kind.  Whatever decrypt is given, the only error that
\* leaves it is DecryptionError: every failure of a sub-step (ValueError,
\* OverflowError) reaches the caller as DecryptionError.
OnlyDecryptionError ==
    call.op = "decrypt"
        => /\ call.err \in {"none", "DecryptionError"}
           /\ call.cause # "none" => call.err = "DecryptionError"

\* C4 witness: a block decryption that failed with OverflowError inside
\* decrypt.
OnlyDecryptionErrorWitness ==
    call.op = "decrypt" /\ call.cause = "OverflowError"

\* C5 as stated: decrypt of a ciphertext with its last byte removed, or with a
\* bit flipped, ends in DecryptionError and never returns a value.
TamperDetected ==
    (call.op = "decrypt" /\ call.input \in {"truncated", "padding", "iv"})
        => call.err = "DecryptionError"

\* C5 as amended: decrypt of a truncated or tampered ciphertext either ends
\* in DecryptionError, never in an error of another kind, or returns a value;
\* with the leading bit of the first chunk flipped it returns what it returns
\* for the ciphertext itself, whenever that call returns.
TamperOutcome ==
    (call.op = "decrypt" /\ call.input \in {"truncated", "padding", "iv"})
        => /\ call.err \in {"none", "DecryptionError"}
           /\ call.input = "padding" =>
                \E r \in {decrypt(key, enc.out)} :
                    r.err = "none" => (call.err = "none" /\ call.out = r.out)

\* C5 witness: a two-block ciphertext with the leading bit flipped, decrypted
\* to the plaintext.
TamperOutcomeWitness ==
    /\ call.op = "decrypt" /\ call.input = "padding"
    /\ call.err = "none" /\ call.out = enc.data
    /\ Len(enc.data) > ENGINE_BLOCK_SIZE

\* C6: metadata round trip.  For every sequence L of integers in 0..255 (255
\* included), every 16-byte key and IV and every prefix P of whole blocks,
\* decrypt_metadata(P + encrypt_metadata(L, key, iv), key, iv) is L.
MetadataRoundTrip ==
    (codec.op = "decrypt" /\ ValidKey(codec.key))
        => (codec.err = "none" /\ codec.out = codec.byte_array)

\* C7 as stated: decrypt_metadata fails with DecodeError when no decrypted
\* block holds the sentinel.
NoSentinelFails ==
    (codec.op = "decrypt_raw" /\ ValidKey(codec.key)) => codec.err = "DecodeError"

\* C7 as amended: when no decrypted block holds the sentinel, decrypt_metadata
\* raises nothing and returns every decrypted byte as the sequence.
NoSentinelReturnsAll ==
    (codec.op = "decrypt_raw" /\ ValidKey(codec.key))
        => (codec.err = "none" /\ codec.out = codec.plain)

\* C7 witness: two decrypted blocks without the sentinel, returned whole.
NoSentinelReturnsAllWitness ==
    /\ codec.op = "decrypt_raw" /\ ValidKey(codec.key)
    /\ Len(codec.out) = 2 * BLOCK_SIZE
    /\ Find(codec.out, SENTINEL) = 0

\* C8: the constructor fails with ValueError on a key that is not a bytes
\* object or not of 16 bytes, and the key of every engine is 16 bytes.
ConstructorRejects ==
    /\ (call.op = "init" /\ ~ValidKey(keyArg))
           => (call.err = "ValueError" /\ phase = "failed")
    /\ phase = "ready" => ValidKey(key)

\* C9: metadata invariant.  The metadata of encrypt has one entry per block,
\* in block order; entry i is the bit length of the minimal binary form of
\* block i's encrypted integer, and the low-order bits of chunk i, that many,
\* are that integer, its leading bit first.
MetadataExact ==
    enc.valid =>
        LET blocks == SplitBlocks(enc.data)
        IN  /\ Len(enc.metadata) = Len(blocks)
            /\ \A i \in 1..Len(blocks) :
                 \E v \in {EncryptedInt(blocks[i], KeyAt(key, i).val)} :
                 \E bits \in {BitsOfBytes(Slice(enc.encrypted_blocks,
                                                (i - 1) * 16, i * 16))} :
                 \E m \in {enc.metadata[i]} :
                    /\ m = Len(Bin(v))
                    /\ m <= Len(bits)
                    /\ IntOfBits(Slice(bits, Len(bits) - m, Len(bits))) = v
                    /\ (v # << >>) => bits[Len(bits) - m + 1] = 1

\* C9 witness: two blocks, the second of more than 96 bits.
MetadataExactWitness ==
    /\ enc.valid
    /\ Len(enc.metadata) = 2
    /\ enc.metadata[2] > 96
    /\ enc.metadata[1] # enc.metadata[2]

\* C10 as stated: the bytes before the footer are the minimal byte packing of
\* the concatenated minimal binary forms of the blocks' encrypted integers.
WirePacked ==
    enc.valid =>
        LET blocks == SplitBlocks(enc.data)
            packed[i \in 0..Len(blocks)] ==
                IF i = 0 THEN << >>
                ELSE packed[i - 1] \o Bin(EncryptedInt(blocks[i], KeyAt(key, i).val))
            bits == packed[Len(blocks)]
        IN  /\ enc.encrypted_blocks =
                   binary_to_bytes(ZFill(bits, 8 * ((Len(bits) + 7) \div 8)))
            /\ enc.out = enc.encrypted_blocks
                         \o Slice(enc.out, Len(enc.encrypted_blocks), Len(enc.out) - 16)
                         \o enc.iv
            /\ (Len(enc.out) - Len(enc.encrypted_blocks)) % 16 = 0

\* C10 as amended: the output is one chunk of 16 bytes per block, then the
\* reversed metadata ciphertext, a positive multiple of 16 bytes, then the 16
\* bytes of the IV; chunk i holds the minimal binary form of block i's
\* encrypted integer in its low-order bits, after the leading bits of the
\* block's scaled padding.
WireChunked ==
    enc.valid =>
        LET blocks == SplitBlocks(enc.data)
            n == Len(blocks)
            footer == Slice(enc.out, 16 * n, Len(enc.out) - 16)
        IN  /\ enc.encrypted_blocks = Slice(enc.out, 0, 16 * n)
            /\ Len(enc.out) = 16 * n + 16 * ((n \div 16) + 1) + 16
            /\ Slice(enc.out, Len(enc.out) - 16, Len(enc.out)) = enc.iv
            /\ Reverse(footer) = CBCEncrypt(key.val, enc.iv, PadMetadata(enc.metadata))
            /\ \A i \in 1..n :
                 \E e \in {Bin(EncryptedInt(blocks[i], KeyAt(key, i).val))} :
                 \E padding \in {ZFill(PaddingBits(blocks[i]), 128)} :
                 \E bits \in {BitsOfBytes(Slice(enc.out, (i - 1) * 16, i * 16))} :
                    /\ Len(bits) = 128
                    /\ \A j \in 1..(128 - Len(e)) : bits[j] = padding[j]
                    /\ \A j \in 1..Len(e) : bits[128 - Len(e) + j] = e[j]

\* C10 witness: two chunks, the second with padding bits set before the
\* encrypted integer.
WireChunkedWitness ==
    /\ enc.valid
    /\ Len(enc.encrypted_blocks) = 32
    /\ enc.out[17] = 255
    /\ enc.metadata[2] < 120

\* C11: per-call key schedule.  In any sequence of calls on one engine, every
\* encrypt, decrypt and encrypt_bound starts from the root key, whatever the
\* earlier calls left behind (a decrypt that failed midway included), leaves
\* the working key at the root key reshuffled once per block it processed, and
\* never changes the root key.
PerCallKeySchedule ==
    call.op \in {"encrypt", "decrypt", "encrypt_bound"}
        => /\ call.start = key
           /\ key = keyArg
           /\ \E n \in 0..((Len(call.arg) \div 4) + 4) : current_key = KeyAt(key, n + 1)
           /\ (call.op = "encrypt" /\ call.err = "none")
                  => current_key = KeyAt(key, Len(enc.metadata) + 1)

\* C11 witness: a call found the working key of an earlier call on the engine,
\* different from the root key, and started from the root key all the same; it
\* processed two blocks and left the working key two reshuffles away.
PerCallKeyScheduleWitness ==
    /\ call.op = "encrypt" /\ call.err = "none"
    /\ call.found # key
    /\ call.start = key
    /\ Len(enc.metadata) = 2
    /\ current_key = KeyAt(key, 3)
    /\ current_key # key

\* C12: shared-instance hazard.  When two invocations of encrypt or decrypt
\* overlap on one engine, pass by pass, each pass processes its block under
\* the working key as the engine holds it at that moment, which is the root
\* key reshuffled once per pass that either invocation has completed since
\* the last of them entered; an invocation whose passes all read the key of
\* its own schedule returns what it returns on its own.
SharedKeyState ==
    phase = "ready" =>
        /\ current_key = KeyAt(key, running.since + 1)
        /\ \A t \in Invocations :
              /\ \A i \in 1..Len(running.inv[t].used) :
                     running.inv[t].used[i] = KeyAt(key, running.inv[t].usedAt[i] + 1)
              /\ running.inv[t].op = "encrypt" =>
                     \A i \in 1..Len(running.inv[t].metadata) :
                        \E r \in {encrypt_block(running.inv[t].blocks[i],
                                                running.inv[t].used[i])} :
                           /\ Slice(running.inv[t].acc, (i - 1) * 16, i * 16) = r.block
                           /\ running.inv[t].metadata[i] = r.length
              /\ (running.inv[t].pc = "done" /\ OnSchedule(t)) =>
                     \E q \in {Sequential(t)} :
                        /\ running.inv[t].err = q.err
                        /\ running.inv[t].out = q.out

\* C12 witness: both invocations have returned; a pass of the encrypt of the
\* first read a working key that is not the key of its schedule and its
\* result is not the result of the same call made alone, and the decrypt of
\* the second did not return what it returns alone either.
SharedHazard ==
    /\ running.inv[1].pc = "done" /\ running.inv[1].op = "encrypt"
    /\ running.inv[1].err = "none"
    /\ ~OnSchedule(1)
    /\ running.inv[1].out # Sequential(1).out
    /\ running.inv[2].pc = "done" /\ running.inv[2].op = "decrypt"
    /\ ~OnSchedule(2)
    /\ Sequential(2).err = "none"
    /\ (running.inv[2].err # "none" \/ running.inv[2].out # Sequential(2).out)

\* C13: block splitting.  A plaintext of n bytes is cut into ceil(n / 4)
\* blocks, none for the empty plaintext, whose concatenation is the
\* plaintext; when n is not a multiple of 4 the first block has n mod 4 bytes,
\* and every other block has 4 bytes.
BlockSplitting ==
    running.inv[1].op = "encrypt" =>
        /\ Len(running.inv[1].blocks) = (Len(data) + 3) \div 4
        /\ JoinFrom(running.inv[1].blocks, 1) = data
        /\ (Len(data) % 4 # 0) => Len(running.inv[1].blocks[1]) = Len(data) % 4
        /\ \A i \in 1..Len(running.inv[1].blocks) :
              (i > 1 \/ Len(data) % 4 = 0) => Len(running.inv[1].blocks[i]) = 4

\* C13 witness: nine bytes were cut into three blocks, the first of one byte.
BlockSplittingWitness ==
    /\ running.inv[1].op = "encrypt"
    /\ Len(data) = 9
    /\ Len(running.inv[1].blocks) = 3
    /\ Len(running.inv[1].blocks[1]) = 1
    /\ Len(running.inv[1].blocks[3]) = 4

\* C14: shape of the bounds.  For every plaintext and every combination of
\* the flags, both bounds begin with the blocks encrypt produces for the
\* plaintext and are as long as its ciphertext; what follows the blocks is
\* all 0x00 in lower when lower_bound is set and all 0xFF in upper when
\* upper_bound is set, and otherwise the encrypted metadata followed by the IV
\* of the call.
BoundShape ==
    (call.op = "encrypt_bound" /\ call.err = "none" /\ enc.valid) =>
        \E blocks \in {Len(enc.encrypted_blocks)}, length \in {Len(enc.out)},
           footer \in {encrypt_metadata(enc.metadata, key, call.iv).out \o call.iv} :
            /\ Len(call.lower) = length
            /\ Len(call.upper) = length
            /\ Slice(call.lower, 0, blocks) = enc.encrypted_blocks
            /\ Slice(call.upper, 0, blocks) = enc.encrypted_blocks
            /\ Slice(call.lower, blocks, length) =
                   IF call.lower_bound THEN Repeat(0, length - blocks) ELSE footer
            /\ Slice(call.upper, blocks, length) =
                   IF call.upper_bound THEN Repeat(255, length - blocks) ELSE footer

\* C14 witness: a two-block plaintext with lower_bound set and upper_bound not
\* set: lower ends in zeros, upper in the footer of the call, which was made
\* under an IV other than that of the ciphertext at hand.
BoundShapeWitness ==
    /\ call.op = "encrypt_bound" /\ call.err = "none" /\ enc.valid
    /\ call.lower_bound /\ ~call.upper_bound
    /\ Len(enc.metadata) = 2
    /\ call.iv # enc.iv
    /\ Slice(call.lower, 32, Len(call.lower)) = Repeat(0, 32)
    /\ Slice(call.upper, 32, Len(call.upper)) # Slice(enc.out, 32, Len(enc.out))
    /\ Slice(call.upper, 48, 64) = call.iv

\* C15: bit-length bound.  For every block of up to 4 bytes and every
\* 16-byte key-state, the integer encrypt_block computes has a binary form of
\* at least 1 and at most 128 bits: the block it returns has exactly 16
\* bytes, and the length it returns fits one metadata byte and is not the
\* sentinel 0xFF.
BitLengthBound ==
    call.op = "encrypt_block" =>
        /\ call.err = "none"
        /\ call.length >= 1
        /\ call.length <= 128
        /\ Len(call.out) = 16
        /\ call.length < 256
        /\ call.length # SENTINEL

\* C15 witness: a block of four 0xFF bytes under parts of all ones and three
\* shifts of 31 bits gives the longest integer, of 127 bits.
BitLengthBoundWitness ==
    /\ call.op = "encrypt_block" /\ call.err = "none"
    /\ call.arg = Repeat(255, 4)
    /\ call.length = 127
    /\ Len(call.out) = 16

====
